---- MODULE Spec2Model ----
(***************************************************************************)
(* Model of src/pipeline.py: a one-shot ETL job that reads the top coins   *)
(* from a REST API (extract_crypto_data), deduplicates and normalises the  *)
(* records (transform_crypto_data) and upserts them into the PostgreSQL    *)
(* table crypto_market (load_to_postgres), sequenced by run_pipeline.      *)
(*                                                                         *)
(* Python values are represented as follows.                               *)
(*   str          a sequence of one-character strings, <<" ", "B">>        *)
(*   None / x     an optional value: <<>> is None, <<x>> is the value x    *)
(*   dict (JSON)  a record with a field "keys", the set of keys the dict   *)
(*                holds; a key that is absent has the value None           *)
(***************************************************************************)
EXTENDS Integers, Sequences, FiniteSets, TLC

VARIABLES
    pc,           \* position of the process: boot, ready, extracted, ...
    env,          \* the five DB_* environment values read at import
    response,     \* the HTTP response received by extract_crypto_data
    raw,          \* the list `raw` of run_pipeline: returned by
                  \* extract_crypto_data, its dicts then changed in place
                  \* by transform_crypto_data
    transformed,  \* list returned by transform_crypto_data / argument of load
    stages,       \* the steps of the process taken so far, in order
    httpCalls,    \* number of requests.get calls made
    dbConnects,   \* number of psycopg2.connect calls made
    printed,      \* whether "Pipeline completed successfully" was printed
    raised,       \* the exception that left the last call ("none" if none)
    tableExists,  \* crypto_market exists (committed)
    table,        \* committed rows of crypto_market: coin_id -> row
    tableBefore,  \* committed rows when the last load_to_postgres call began
    conn,         \* connection of the last load call: none, open, closed
    cur,          \* cursor of the last load call: none, open, closed
    tx,           \* its transaction: none, active, committed, aborted
    calls,        \* number of load_to_postgres calls made
    reloadOk,     \* the last call re-loaded the batch a successful call loaded
    runs,         \* concurrent runs: per run its position, batch and next row
    heap,         \* newest row version per coin_id, committed or not
    owner,        \* run holding the row lock of a coin_id (0: nobody)
    creator,      \* run that created the table in an open transaction (0: none)
    commitSeq,    \* runs in the order they committed
    normKind,     \* normalisation under study: symbol or name
    normIn,       \* value given to the normalisation
    normOut,      \* value after normSteps applications
    normPrev,     \* value after normSteps - 1 applications
    normSteps     \* number of applications made

pipeVars == <<pc, env, response, raw, transformed, stages, httpCalls, printed>>
dbVars   == <<dbConnects, raised, tableExists, table, tableBefore, conn, cur, tx>>
loadVars == <<calls, reloadOk>>
concVars == <<runs, heap, owner, creator, commitSeq>>
normVars == <<normKind, normIn, normOut, normPrev, normSteps>>
vars     == <<pipeVars, dbVars, loadVars, concVars, normVars>>

-----------------------------------------------------------------------------
(* Bounds of the model *)

\* longest JSON array the API answers with
MaxLen == 2
\* longest symbol / name string given to the text normalisation
MaxStrLen == 3
\* number of load_to_postgres calls made in a row on one database
MaxLoads == 3
\* number of overlapping pipeline runs
NRuns == 2

-----------------------------------------------------------------------------
(* Python values *)

None == <<>>
Some(x) == <<x>>

\* sequences over S of length at most n
SeqsUpTo(S, n) == UNION {[1..k -> S] : k \in 0..n}

\* characters of the strings; " " is the whitespace character
Chars == {" ", "B", "b"}

IsSpace(c) == c = " "

\* str.lower(), one character
LowerChar(c) == IF c = "B" THEN "b" ELSE c

\* str.lower()
Lower(s) == [i \in 1..Len(s) |-> LowerChar(s[i])]

RECURSIVE LStrip(_)
LStrip(s) == IF s # <<>> /\ IsSpace(Head(s)) THEN LStrip(Tail(s)) ELSE s

RECURSIVE RStrip(_)
RStrip(s) ==
    IF s # <<>> /\ IsSpace(s[Len(s)]) THEN RStrip(SubSeq(s, 1, Len(s) - 1)) ELSE s

\* str.strip()
Strip(s) == RStrip(LStrip(s))

\* truth value of an optional string: None and "" are falsy
Truthy(v) == v # None /\ v[1] # <<>>

\* line 106: item["symbol"].strip().lower() if item.get("symbol") else None
NormSymbol(v) == IF Truthy(v) THEN Some(Lower(Strip(v[1]))) ELSE None

\* line 107: item["name"].strip() if item.get("name") else None
NormName(v) == IF Truthy(v) THEN Some(Strip(v[1])) ELSE None

-----------------------------------------------------------------------------
(* Startup: module-level credential check, lines 20-32 *)

EnvNames == {"DB_USER", "DB_PASSWORD", "DB_HOST", "DB_PORT", "DB_NAME"}

\* os.getenv gives None for an unset name and "" for an empty one
EnvValues == {None, Some(<<>>), Some(<<"b">>)}

Envs == [EnvNames -> EnvValues]

\* any() in place of all()
CredentialsPresent_any(e) == \E n \in EnvNames : Truthy(e[n])

\* line 29: all([DB_USER, DB_PASSWORD, DB_HOST, DB_PORT, DB_NAME])
CredentialsPresent(e) == \A n \in EnvNames : Truthy(e[n])

-----------------------------------------------------------------------------
(* extract_crypto_data, lines 35-82 *)

HTTP_OK == 200

CoinKeys == {"id", "symbol", "name", "current_price", "market_cap"}

\* dict.get(key): None when the key is absent
Get(coin, k) == IF k \in coin.keys THEN coin[k] ELSE None

\* the market_cap test left out
Skipped_nocap(coin) == "id" \notin coin.keys \/ "current_price" \notin coin.keys

\* line 68: the entry is skipped when a required key is absent
Skipped(coin) ==
    \/ "id" \notin coin.keys
    \/ "current_price" \notin coin.keys
    \/ "market_cap" \notin coin.keys

\* lines 72-78: the five-field projection
Project(coin) ==
    [coin_id       |-> Get(coin, "id"),
     symbol        |-> Get(coin, "symbol"),
     name          |-> Get(coin, "name"),
     current_price |-> Get(coin, "current_price"),
     market_cap    |-> Get(coin, "market_cap")]

\* lines 65-78: the loop over the JSON array
RECURSIVE Cleaned(_)
Cleaned(data) ==
    IF data = <<>> THEN <<>>
    ELSE IF Skipped(Head(data)) THEN Cleaned(Tail(data))
    ELSE <<Project(Head(data))>> \o Cleaned(Tail(data))

\* the status test left out
ApiFailed_never(resp) == FALSE

\* line 58: the request failed
ApiFailed(resp) == resp.status_code # HTTP_OK

-----------------------------------------------------------------------------
(* transform_crypto_data, lines 87-115 *)

\* lines 105-112: the kept item, cleaned and stamped
CleanItem(item, now) ==
    [coin_id        |-> item.coin_id,
     symbol         |-> NormSymbol(item.symbol),
     name           |-> NormName(item.name),
     current_price  |-> item.current_price,
     market_cap     |-> item.market_cap,
     load_timestamp |-> now]

\* lines 99-112: the loop; stamps[i] is what datetime.utcnow() reads while
\* item i is handled
RECURSIVE Dedup(_, _, _, _)
Dedup(data, stamps, i, seen) ==
    IF i > Len(data) THEN <<>>
    ELSE IF data[i].coin_id \in seen THEN Dedup(data, stamps, i + 1, seen)
    ELSE <<CleanItem(data[i], stamps[i])>>
             \o Dedup(data, stamps, i + 1, seen \cup {data[i].coin_id})

\* lines 106-110 assign to the dicts of the argument: after the call the
\* argument list holds every kept item cleaned and stamped, and every
\* skipped item as it was
MutatedInPlace(data, stamps) ==
    [i \in 1..Len(data) |->
        IF \E k \in 1..(i - 1) : data[k].coin_id = data[i].coin_id
        THEN data[i]
        ELSE CleanItem(data[i], stamps[i])]

\* seen.add(cid) left out: no item is ever skipped
transform_noseen(data, stamps) ==
    [i \in 1..Len(data) |-> CleanItem(data[i], stamps[i])]

transform_crypto_data(data, stamps) == Dedup(data, stamps, 1, {})


-----------------------------------------------------------------------------
(* load_to_postgres, lines 120-172, and the database it talks to *)

\* lines 146-155: the tuples handed to execute_values
Values(data) ==
    [i \in 1..Len(data) |->
        [coin_id        |-> data[i].coin_id,
         symbol         |-> data[i].symbol,
         name           |-> data[i].name,
         current_price  |-> data[i].current_price,
         market_cap     |-> data[i].market_cap,
         load_timestamp |-> data[i].load_timestamp]]

\* every column taken from the new tuple
OnConflict_all(old, excluded) == excluded

\* SET current_price alone
OnConflict_priceonly(old, excluded) ==
    [old EXCEPT !.current_price = excluded.current_price]

\* ON CONFLICT DO NOTHING
OnConflict_nothing(old, excluded) == old

\* lines 162-165: ON CONFLICT (coin_id) DO UPDATE SET ... = EXCLUDED. ...
OnConflict(old, excluded) ==
    [old EXCEPT !.current_price  = excluded.current_price,
                !.market_cap     = excluded.market_cap,
                !.load_timestamp = excluded.load_timestamp]

\* lines 160-165: INSERT ... ON CONFLICT for one tuple
UpsertRow(t, v) ==
    IF v.coin_id \in DOMAIN t
    THEN [t EXCEPT ![v.coin_id] = OnConflict(@, v)]
    ELSE [c \in DOMAIN t \cup {v.coin_id} |-> IF c = v.coin_id THEN v ELSE t[c]]

\* line 168: execute_values applies the tuples in order
RECURSIVE UpsertAll(_, _)
UpsertAll(t, values) ==
    IF values = <<>> THEN t ELSE UpsertAll(UpsertRow(t, Head(values)), Tail(values))

\* PostgreSQL refuses an INSERT ... ON CONFLICT DO UPDATE that names a key twice
UniqueIds(values) ==
    \A i, j \in 1..Len(values) : values[i].coin_id = values[j].coin_id => i = j

\* how a call can end: normally, or with an error raised by line 130
\* (connect), line 134 (CREATE TABLE), line 168 (the upsert, at tuple k) or
\* line 169 (commit)
LoadOutcomes(values) ==
    {[kind |-> "ok", k |-> 0] : x \in {v \in {values} : UniqueIds(v)}}
      \cup {[kind |-> s, k |-> 0] : s \in {"connect", "create", "commit"}}
      \cup {[kind |-> "upsert", k |-> k] : k \in 1..Len(values)}

\* rows the transaction has written when the call ends
Written(before, values, outcome) ==
    CASE outcome.kind \in {"ok", "commit"} -> UpsertAll(before, values)
      [] outcome.kind = "upsert" ->
            UpsertAll(before, SubSeq(values, 1, outcome.k - 1))
      [] OTHER -> before

\* autocommit: what was written stays
Durable_autocommit(before, written, outcome) == written

\* line 169: conn.commit() is the one place the rows become durable; a
\* transaction that met an error is aborted by the server
Durable(before, written, outcome) ==
    IF outcome.kind = "ok" THEN written ELSE before

\* line 170: conn.close() is reached on the normal path only
ConnAfter(outcome) ==
    CASE outcome.kind = "ok" -> "closed"
      [] outcome.kind = "connect" -> "none"
      [] OTHER -> "open"

\* line 131 opens the cursor; it is never closed by itself, and counts as
\* closed once its connection is
CurAfter(outcome) ==
    CASE outcome.kind = "ok" -> "closed"
      [] outcome.kind = "connect" -> "none"
      [] OTHER -> "open"

TxAfter(outcome) ==
    CASE outcome.kind = "ok" -> "committed"
      [] outcome.kind = "connect" -> "none"
      [] OTHER -> "aborted"

\* an exception: its type, its message, and for a failed API call the
\* status code and response text the message is formatted from
Error(type, msg, status, text) ==
    [type |-> type, msg |-> msg, status |-> status, text |-> text]

NoError == Error("none", "", 0, <<>>)

\* no try/except in the function: the driver's exception leaves the call
RaisedBy(outcome) ==
    CASE outcome.kind = "ok" -> NoError
      [] outcome.kind = "connect" -> Error("psycopg2.OperationalError", "connect", 0, <<>>)
      [] OTHER -> Error("psycopg2.DatabaseError", outcome.kind, 0, <<>>)

\* the whole call
load_to_postgres(data, outcome) ==
    LET values == Values(data)
        written == Written(table, values, outcome)
    IN  /\ dbConnects' = dbConnects + 1
        /\ tableBefore' = table
        /\ table' = Durable(table, written, outcome)
        /\ tableExists' = (tableExists \/ outcome.kind = "ok")
        /\ conn' = ConnAfter(outcome)
        /\ cur' = CurAfter(outcome)
        /\ tx' = TxAfter(outcome)
        /\ raised' = RaisedBy(outcome)

-----------------------------------------------------------------------------
(* Inputs of the pipeline specification *)

Ids == {"bitcoin", "ether"}

\* the id of an API entry: absent, or one of Ids
IdVariants ==
    {[keys |-> {}, id |-> None]}
      \cup {[keys |-> {"id"}, id |-> Some(i)] : i \in Ids}

\* symbol and name of an API entry: absent, padded upper-case text, or a
\* mixed-case symbol with a null name
TextVariants ==
    {[keys |-> {}, symbol |-> None, name |-> None],
     [keys |-> {"symbol", "name"},
      symbol |-> Some(<<" ", "B">>), name |-> Some(<<"B", " ">>)],
     [keys |-> {"symbol", "name"},
      symbol |-> Some(<<"b", "B">>), name |-> None]}

\* current_price and market_cap of an API entry: either absent, the price
\* null, or both given
QuoteVariants ==
    {[keys |-> {"market_cap"}, current_price |-> None, market_cap |-> Some(5)],
     [keys |-> {"current_price"}, current_price |-> Some(1), market_cap |-> None],
     [keys |-> {"current_price", "market_cap"},
      current_price |-> Some(1), market_cap |-> Some(5)],
     [keys |-> {"current_price", "market_cap"},
      current_price |-> None, market_cap |-> Some(6)]}

RawCoins ==
    {[keys          |-> i.keys \cup t.keys \cup q.keys,
      id            |-> i.id,
      symbol        |-> t.symbol,
      name          |-> t.name,
      current_price |-> q.current_price,
      market_cap    |-> q.market_cap] :
        i \in IdVariants, t \in TextVariants, q \in QuoteVariants}

Bodies == SeqsUpTo(RawCoins, MaxLen)

\* the text of an error response is not parsed
ErrorText == <<"b">>

Responses ==
    {[status_code |-> HTTP_OK, json |-> b, text |-> <<>>] : b \in Bodies}
      \cup {[status_code |-> s, json |-> <<>>, text |-> ErrorText] : s \in {429, 500}}

NoResponse == [status_code |-> 0, json |-> <<>>, text |-> <<>>]

\* what datetime.utcnow() reads for the items of one call: the clock may
\* stand still or advance between two items
Stamps(n) == {[i \in 1..n |-> 1], [i \in 1..n |-> i]}

EmptyTable == [c \in {} |-> None]

\* a row left by an earlier run
OldRow(c) ==
    [coin_id |-> Some(c), symbol |-> Some(<<"b", "b">>), name |-> None,
     current_price |-> Some(3), market_cap |-> Some(7), load_timestamp |-> 0]


-----------------------------------------------------------------------------
(* The process: import of the module, then run_pipeline, lines 178-192 *)

IdleDb ==
    /\ dbConnects = 0
    /\ raised = NoError
    /\ tableBefore = table
    /\ conn = "none" /\ cur = "none" /\ tx = "none"

IdleLoad == calls = 0 /\ reloadOk = FALSE

IdleConc ==
    /\ runs = <<>>
    /\ heap = EmptyTable
    /\ owner = EmptyTable
    /\ creator = 0
    /\ commitSeq = <<>>

IdleNorm ==
    /\ normKind = "none"
    /\ normIn = None /\ normOut = None /\ normPrev = None
    /\ normSteps = 0

IdlePipe ==
    /\ pc = "off"
    /\ env = [n \in EnvNames |-> None]
    /\ response = NoResponse
    /\ raw = <<>>
    /\ transformed = <<>>
    /\ stages = <<>>
    /\ httpCalls = 0
    /\ printed = FALSE

\* the process starts in some environment, against a database that is
\* empty or holds the row of an earlier run
Init ==
    /\ pc = "boot"
    /\ env \in Envs
    /\ response = NoResponse
    /\ raw = <<>>
    /\ transformed = <<>>
    /\ stages = <<>>
    /\ httpCalls = 0
    /\ printed = FALSE
    /\ \/ tableExists = FALSE /\ table = EmptyTable
       \/ tableExists = TRUE /\ table = [c \in {Some("bitcoin")} |-> OldRow("bitcoin")]
    /\ IdleDb /\ IdleLoad /\ IdleConc /\ IdleNorm

\* lines 20-32: the credentials are read and checked while the module loads
Startup ==
    /\ pc = "boot"
    /\ IF CredentialsPresent(env)
       THEN pc' = "ready" /\ raised' = raised
       ELSE /\ pc' = "crashed"
            /\ raised' = Error("Exception", "Database credentials are missing in .env",
                               0, <<>>)
    /\ stages' = Append(stages, "startup")
    /\ UNCHANGED <<env, response, raw, transformed, httpCalls, printed>>
    /\ UNCHANGED <<dbConnects, tableExists, table, tableBefore, conn, cur, tx>>
    /\ UNCHANGED <<loadVars, concVars, normVars>>

\* line 183: extract_crypto_data(limit=5), lines 35-82
Extract ==
    /\ pc = "ready"
    /\ \E resp \in Responses :
         /\ response' = resp
         /\ httpCalls' = httpCalls + 1
         /\ IF ApiFailed(resp)
            THEN /\ raised' = Error("Exception", "API call failed",
                                    resp.status_code, resp.text)
                 /\ raw' = raw
                 /\ pc' = "crashed"
            ELSE /\ raised' = raised
                 /\ raw' = Cleaned(resp.json)
                 /\ pc' = "extracted"
    /\ stages' = Append(stages, "extract")
    /\ UNCHANGED <<env, transformed, printed>>
    /\ UNCHANGED <<dbConnects, tableExists, table, tableBefore, conn, cur, tx>>
    /\ UNCHANGED <<loadVars, concVars, normVars>>

\* line 184: transform_crypto_data(raw), lines 87-115
Transform ==
    /\ pc = "extracted"
    /\ \E stamps \in Stamps(Len(raw)) :
         /\ transformed' = transform_crypto_data(raw, stamps)
         /\ raw' = MutatedInPlace(raw, stamps)
    /\ pc' = "transformed"
    /\ stages' = Append(stages, "transform")
    /\ UNCHANGED <<env, response, httpCalls, printed>>
    /\ UNCHANGED <<dbVars, loadVars, concVars, normVars>>

\* line 185: load_to_postgres(transformed), lines 120-172
Load ==
    /\ pc = "transformed"
    /\ \E outcome \in LoadOutcomes(Values(transformed)) :
         /\ load_to_postgres(transformed, outcome)
         /\ pc' = IF outcome.kind = "ok" THEN "loaded" ELSE "crashed"
    /\ stages' = Append(stages, "load")
    /\ UNCHANGED <<env, response, raw, transformed, httpCalls, printed>>
    /\ UNCHANGED <<loadVars, concVars, normVars>>

\* line 186: the completion message
Complete ==
    /\ pc = "loaded"
    /\ printed' = TRUE
    /\ pc' = "done"
    /\ stages' = Append(stages, "complete")
    /\ UNCHANGED <<env, response, raw, transformed, httpCalls>>
    /\ UNCHANGED <<dbVars, loadVars, concVars, normVars>>

Next == Startup \/ Extract \/ Transform \/ Load \/ Complete

Spec == Init /\ [][Next]_vars


-----------------------------------------------------------------------------
(* Properties of the process *)

\* the names an env value may not have for the check to pass
Missing(v) == v = None \/ v = Some(<<>>)

CoinIdsOf(data) == {data[i].coin_id : i \in 1..Len(data)}

\* index of the first item of data with coin_id c
FirstIndex(data, c) ==
    CHOOSE i \in 1..Len(data) :
        /\ data[i].coin_id = c
        /\ \A k \in 1..(i - 1) : data[k].coin_id # c

\* out is data deduplicated: every coin_id once, with the values of its
\* first item, in the order of the first items
KeepsFirst(data, out) ==
    /\ CoinIdsOf(out) = CoinIdsOf(data)
    /\ \A c \in CoinIdsOf(data) :
         Cardinality({j \in 1..Len(out) : out[j].coin_id = c}) = 1
    /\ \A j \in 1..Len(out) :
         LET first == data[FirstIndex(data, out[j].coin_id)]
         IN  /\ out[j].current_price = first.current_price
             /\ out[j].market_cap = first.market_cap
             /\ out[j].symbol = NormSymbol(first.symbol)
             /\ out[j].name = NormName(first.name)
    /\ \A j, k \in 1..Len(out) :
         j < k => FirstIndex(data, out[j].coin_id) < FirstIndex(data, out[k].coin_id)

\* C1: the output of transform_crypto_data holds every coin_id of its input
\* exactly once, each kept record has the price, market cap, normalised
\* symbol and normalised name of the first input item with that coin_id, and
\* the kept records are in the order of those first items.  The input is
\* the list as it is when the call begins: the call changes its dicts.
C1_DedupKeepsFirst ==
    [][(pc = "extracted" /\ pc' = "transformed") => KeepsFirst(raw, transformed')]_vars

\* a repeated coin_id whose two items differ in price, symbol and name: the
\* first was kept and cleaned, the second skipped and left as it was
C1_Witness ==
    /\ pc = "transformed"
    /\ Len(raw) = 2 /\ Len(transformed) = 1
    /\ raw[1].coin_id = raw[2].coin_id
    /\ raw[1] = transformed[1]
    /\ response.json[1].symbol = Some(<<" ", "B">>)
    /\ transformed[1].symbol = Some(<<"b">>)
    /\ raw[2].symbol # Some(<<" ", "B">>)
    /\ raw[2].current_price # transformed[1].current_price

\* extract_crypto_data has returned and raw is still as it returned it
Extracted == pc = "extracted"

RequiredKeys == {"id", "current_price", "market_cap"}

KeptIndices(data) == {i \in 1..Len(data) : RequiredKeys \subseteq data[i].keys}

\* C6: on a 200 answer extract_crypto_data returns, in input order, exactly
\* the entries holding id, current_price and market_cap, each as the five
\* fields coin_id (= id), symbol, name, current_price, market_cap.
C6_ExtractFilters ==
    Extracted =>
        LET data == response.json
            kept == KeptIndices(data)
        IN  /\ response.status_code = 200
            /\ Len(raw) = Cardinality(kept)
            /\ Len(raw) <= Len(data)
            /\ \A i \in kept :
                 LET r == raw[Cardinality({k \in kept : k <= i})]
                 IN  /\ DOMAIN r = {"coin_id", "symbol", "name",
                                    "current_price", "market_cap"}
                     /\ r.coin_id = data[i].id
                     /\ r.symbol = data[i].symbol
                     /\ r.name = data[i].name
                     /\ r.current_price = data[i].current_price
                     /\ r.market_cap = data[i].market_cap

\* an array whose first entry lacks market_cap and whose second is complete
C6_Witness ==
    /\ pc = "extracted"
    /\ Len(response.json) = 2 /\ Len(raw) = 1
    /\ response.json[1].keys = {"id", "symbol", "name", "current_price"}
    /\ raw[1].coin_id = response.json[2].id

StageOrder == <<"startup", "extract", "transform", "load", "complete">>

IsPrefix(s, t) == Len(s) <= Len(t) /\ \A i \in 1..Len(s) : s[i] = t[i]

\* C7: the steps run in the order extract, transform, load; a step that
\* raises ends the run with its exception and without the completion
\* message; a non-200 answer raises an error with the status code and the
\* response text after one request, and then transform and load have not
\* run, no connection was opened and the table is as it was.
C7_FailFast ==
    /\ IsPrefix(stages, StageOrder)
    /\ printed => pc = "done" /\ raised = NoError /\ stages = StageOrder
    /\ pc = "crashed" =>
         /\ raised # NoError
         /\ ~printed
         /\ raised.type = "Exception" => Len(stages) <= 2
         /\ raised.type # "Exception" => Len(stages) = 4
    /\ (httpCalls > 0 /\ response.status_code # 200) =>
         /\ pc = "crashed"
         /\ raised.status = response.status_code
         /\ raised.text = response.text
         /\ httpCalls = 1
         /\ stages = <<"startup", "extract">>
         /\ transformed = <<>>
         /\ dbConnects = 0 /\ conn = "none"
         /\ table = tableBefore
         /\ ~printed

\* a 500 answer met by a run against a table that holds a row
C7_Witness ==
    /\ pc = "crashed"
    /\ response.status_code = 500
    /\ raised.status = 500
    /\ table # EmptyTable

\* C8: with one of the five DB_* values unset or empty the process fails at
\* startup and makes no HTTP request and no database connection; a request
\* or a connection is made only with all five present.
C8_ConfigChecked ==
    /\ (\E n \in EnvNames : Missing(env[n])) =>
         /\ pc \in {"boot", "crashed"}
         /\ httpCalls = 0 /\ dbConnects = 0
         /\ pc = "crashed" =>
              /\ stages = <<"startup">>
              /\ raised.msg = "Database credentials are missing in .env"
    /\ (httpCalls > 0 \/ dbConnects > 0) => \A n \in EnvNames : ~Missing(env[n])

\* startup failed because DB_PORT alone is empty
C8_Witness ==
    /\ pc = "crashed"
    /\ env["DB_PORT"] = Some(<<>>)
    /\ \A n \in EnvNames \ {"DB_PORT"} : ~Missing(env[n])
    /\ httpCalls = 0


-----------------------------------------------------------------------------
(* load_to_postgres called repeatedly on one database *)

\* API entries with every key, in two variants that differ in each value
LoadCoins ==
    {[keys |-> CoinKeys, id |-> Some(i), symbol |-> Some(<<" ", "B">>),
      name |-> Some(<<"B", " ">>), current_price |-> Some(1),
      market_cap |-> Some(5)] : i \in Ids}
      \cup
    {[keys |-> CoinKeys, id |-> Some(i), symbol |-> Some(<<"B", "b">>),
      name |-> None, current_price |-> Some(2),
      market_cap |-> Some(6)] : i \in Ids}

\* the arrays that lead to a batch: each coin_id at most once
LoadInputs ==
    {b \in SeqsUpTo(LoadCoins, MaxLen) :
        \A i, j \in 1..Len(b) : b[i].id = b[j].id => i = j}

InitLoad ==
    /\ IdlePipe
    /\ tableExists = FALSE /\ table = EmptyTable
    /\ IdleDb /\ IdleLoad /\ IdleConc /\ IdleNorm

\* a new batch, extracted and transformed at time calls + 1, is loaded
LoadBatch ==
    /\ calls < MaxLoads
    /\ \E body \in LoadInputs :
         LET data == transform_crypto_data(Cleaned(body),
                                           [i \in 1..Len(body) |-> calls + 1])
         IN  /\ transformed' = data
             /\ \E outcome \in LoadOutcomes(Values(data)) :
                  load_to_postgres(data, outcome)
    /\ calls' = calls + 1
    /\ reloadOk' = FALSE
    /\ UNCHANGED <<pc, env, response, raw, stages, httpCalls, printed>>
    /\ UNCHANGED <<concVars, normVars>>

\* the batch of the last call is loaded again
Reload ==
    /\ calls > 0 /\ calls < MaxLoads
    /\ \E outcome \in LoadOutcomes(Values(transformed)) :
         load_to_postgres(transformed, outcome)
    /\ calls' = calls + 1
    /\ reloadOk' = (raised = NoError)
    /\ UNCHANGED <<pipeVars, concVars, normVars>>

NextLoad == LoadBatch \/ Reload

SpecLoad == InitLoad /\ [][NextLoad]_vars

BatchIds == {transformed[i].coin_id : i \in 1..Len(transformed)}

\* the record of the batch with coin_id c
BatchRec(c) == transformed[CHOOSE i \in 1..Len(transformed) : transformed[i].coin_id = c]

Refreshed(row, rec) ==
    /\ row.current_price = rec.current_price
    /\ row.market_cap = rec.market_cap
    /\ row.load_timestamp = rec.load_timestamp

\* C2: a successful load inserts the full row of every record whose coin_id
\* was not in the table, sets current_price, market_cap and load_timestamp
\* of a row that was there and keeps its symbol and name, and leaves the
\* rows of other coin_ids as they were.
C2_UpsertSemantics ==
    (calls > 0 /\ raised = NoError) =>
        /\ DOMAIN table = DOMAIN tableBefore \cup BatchIds
        /\ \A c \in BatchIds \ DOMAIN tableBefore :
             /\ table[c].coin_id = c
             /\ table[c].symbol = BatchRec(c).symbol
             /\ table[c].name = BatchRec(c).name
             /\ Refreshed(table[c], BatchRec(c))
        /\ \A c \in BatchIds \cap DOMAIN tableBefore :
             /\ table[c].coin_id = c
             /\ table[c].symbol = tableBefore[c].symbol
             /\ table[c].name = tableBefore[c].name
             /\ Refreshed(table[c], BatchRec(c))
        /\ \A c \in DOMAIN tableBefore \ BatchIds : table[c] = tableBefore[c]

\* one load that updates bitcoin, whose symbol differs from the batch's,
\* and inserts ether
C2_Witness ==
    /\ calls > 0 /\ raised = NoError
    /\ DOMAIN tableBefore = {Some("bitcoin")}
    /\ BatchIds = {Some("bitcoin"), Some("ether")}
    /\ tableBefore[Some("bitcoin")].symbol # BatchRec(Some("bitcoin")).symbol
    /\ tableBefore[Some("bitcoin")].current_price
         # BatchRec(Some("bitcoin")).current_price

\* C3: a load applies all rows of the batch or none: a call that returns
\* has committed every row; a call that met a database error in CREATE
\* TABLE, the upsert or the commit leaves the table as it was, its
\* transaction aborted, and the error reaches the caller.
C3_AtomicLoad ==
    calls > 0 =>
        /\ raised = NoError =>
             /\ tx = "committed"
             /\ \A c \in BatchIds : c \in DOMAIN table /\ Refreshed(table[c], BatchRec(c))
        /\ raised # NoError =>
             /\ table = tableBefore
             /\ tx # "committed"
        /\ tx = "aborted" <=> raised.type = "psycopg2.DatabaseError"
        /\ tx = "committed" <=> raised = NoError

\* the upsert fails at the second tuple after the first one changed a row
C3_Witness ==
    /\ raised.type = "psycopg2.DatabaseError" /\ raised.msg = "upsert"
    /\ Len(transformed) = 2
    /\ transformed[1].coin_id \in DOMAIN tableBefore
    /\ ~Refreshed(tableBefore[transformed[1].coin_id], transformed[1])
    /\ table = tableBefore

\* C4: when a load_to_postgres call has ended, normally or with an error,
\* neither its connection nor its cursor is open.
C4_ResourcesReleased ==
    calls > 0 => conn # "open" /\ cur # "open"

\* C5, as stated: after the same batch was loaded twice the table is as it
\* was after the first load and every value of each row of the batch is the
\* value of the second load.
C5_ReloadAllValues ==
    (reloadOk /\ raised = NoError) =>
        /\ table = tableBefore
        /\ \A c \in BatchIds : c \in DOMAIN table /\ table[c] = Values(transformed)[
               CHOOSE i \in 1..Len(transformed) : transformed[i].coin_id = c]

\* C5, amended: after the same batch was loaded twice the table is as it
\* was after the first load, and each row of the batch has the
\* current_price, market_cap and load_timestamp of the second load.
C5_ReloadIdempotent ==
    (reloadOk /\ raised = NoError) =>
        /\ table = tableBefore
        /\ \A c \in BatchIds : c \in DOMAIN table /\ Refreshed(table[c], BatchRec(c))

\* a batch loaded twice over a row that an older batch had inserted with
\* another symbol
C5_Witness ==
    /\ reloadOk /\ raised = NoError
    /\ \E c \in BatchIds :
         /\ table[c].symbol # BatchRec(c).symbol
         /\ Refreshed(table[c], BatchRec(c))


-----------------------------------------------------------------------------
(* Overlapping runs: each load_to_postgres call is one transaction of the  *)
(* database.  The database processes the tuples of the INSERT one by one;  *)
(* writing a row takes its row lock, held until the transaction ends, and  *)
(* a writer that finds the lock taken waits.                               *)

Runs == 1..NRuns

AllIds == {Some(i) : i \in Ids}

\* the record run r has transformed for coin_id c
RunRec(r, c) ==
    [coin_id |-> c, symbol |-> Some([i \in 1..r |-> "b"]), name |-> None,
     current_price |-> Some(r), market_cap |-> Some(r + 5), load_timestamp |-> r]

\* the batches of a run: some of the coin_ids, in some order
RunBatches(r) ==
    {[i \in 1..Len(ids) |-> RunRec(r, ids[i])] :
        ids \in {q \in SeqsUpTo(AllIds, Cardinality(AllIds)) :
                    Len(q) > 0 /\ \A i, j \in 1..Len(q) : q[i] = q[j] => i = j}}

InitConc ==
    /\ \/ tableExists = FALSE /\ table = EmptyTable
       \/ tableExists = TRUE /\ table = [c \in {Some("bitcoin")} |-> OldRow("bitcoin")]
    /\ IdlePipe /\ IdleDb /\ IdleLoad /\ IdleNorm
    /\ heap = table
    /\ owner = [c \in AllIds |-> 0]
    /\ creator = 0
    /\ commitSeq = <<>>
    /\ runs \in {f \in [Runs -> [pc : {"idle"}, next : {1},
                                 batch : UNION {RunBatches(r) : r \in Runs}]] :
                    \A r \in Runs : f[r].batch \in RunBatches(r)}

\* line 168: the database writes a row only under its row lock, which is
\* free for run r when no other run holds it
CanLock(r, c) == owner[c] \in {0, r}

\* the run whose lock run r waits for (0: r does not wait)
WaitsFor(r) ==
    IF runs[r].pc = "open" /\ runs[r].next <= Len(runs[r].batch)
    THEN LET o == owner[runs[r].batch[runs[r].next].coin_id]
         IN  IF o = r THEN 0 ELSE o
    ELSE 0

\* following the waits from run q for n steps leads to run r
RECURSIVE Reaches(_, _, _)
Reaches(q, r, n) ==
    /\ n > 0
    /\ WaitsFor(q) # 0
    /\ (WaitsFor(q) = r \/ Reaches(WaitsFor(q), r, n - 1))

Deadlocked(r) == Reaches(r, r, NRuns)

\* the rows a transaction of run r leaves behind when it ends without commit
Undone(r) ==
    [c \in {d \in DOMAIN heap : owner[d] # r \/ d \in DOMAIN table} |->
        IF owner[c] = r THEN table[c] ELSE heap[c]]

Released(r) == [c \in AllIds |-> IF owner[c] = r THEN 0 ELSE owner[c]]

\* what a step of a concurrent run leaves alone
ConcFrame ==
    /\ UNCHANGED <<pipeVars, dbConnects, raised, tableBefore, conn, cur, tx>>
    /\ UNCHANGED <<loadVars, normVars>>

\* lines 130-143: connect, cursor, CREATE TABLE IF NOT EXISTS; a table that
\* another open transaction is creating makes the statement wait
Connect(r) ==
    /\ runs[r].pc = "idle"
    /\ tableExists \/ creator = 0
    /\ creator' = IF tableExists THEN creator ELSE r
    /\ runs' = [runs EXCEPT ![r].pc = "open"]
    /\ UNCHANGED <<heap, owner, commitSeq, table, tableExists>>
    /\ ConcFrame

\* line 168: the database handles the next tuple of the INSERT
UpsertNext(r) ==
    /\ runs[r].pc = "open"
    /\ runs[r].next <= Len(runs[r].batch)
    /\ LET v == runs[r].batch[runs[r].next]
       IN  /\ CanLock(r, v.coin_id)
           /\ heap' = UpsertRow(heap, v)
           /\ owner' = [owner EXCEPT ![v.coin_id] = r]
    /\ runs' = [runs EXCEPT ![r].next = @ + 1]
    /\ UNCHANGED <<creator, commitSeq, table, tableExists>>
    /\ ConcFrame

\* lines 169-170: commit and close
Commit(r) ==
    /\ runs[r].pc = "open"
    /\ runs[r].next > Len(runs[r].batch)
    /\ table' = [c \in DOMAIN table \cup {d \in AllIds : owner[d] = r} |->
                    IF owner[c] = r THEN heap[c] ELSE table[c]]
    /\ tableExists' = TRUE
    /\ owner' = Released(r)
    /\ creator' = IF creator = r THEN 0 ELSE creator
    /\ commitSeq' = Append(commitSeq, r)
    /\ runs' = [runs EXCEPT ![r].pc = "committed"]
    /\ UNCHANGED heap
    /\ ConcFrame

\* the transaction of run r ends with an error: its writes are undone and
\* its locks released
Abort(r) ==
    /\ heap' = Undone(r)
    /\ owner' = Released(r)
    /\ creator' = IF creator = r THEN 0 ELSE creator
    /\ runs' = [runs EXCEPT ![r].pc = "failed"]
    /\ UNCHANGED <<commitSeq, table, tableExists>>
    /\ ConcFrame

\* the database breaks a cycle of waiting transactions by failing one
Deadlock(r) ==
    /\ runs[r].pc = "open"
    /\ Deadlocked(r)
    /\ Abort(r)

\* any statement of the call may fail
DbError(r) ==
    /\ runs[r].pc = "open"
    /\ ~Deadlocked(r)
    /\ Abort(r)

NextConc ==
    \/ \E r \in Runs : Connect(r)
    \/ \E r \in Runs : UpsertNext(r)
    \/ \E r \in Runs : Commit(r)
    \/ \E r \in Runs : Deadlock(r)
    \/ \E r \in Runs : DbError(r)

SpecConc == InitConc /\ [][NextConc]_vars

RunsEnded == \A r \in Runs : runs[r].pc \in {"committed", "failed"}

RunIds(r) == {runs[r].batch[i].coin_id : i \in 1..Len(runs[r].batch)}

\* positions in commitSeq of the runs that wrote coin_id c
CommitsOf(c) == {i \in 1..Len(commitSeq) : c \in RunIds(commitSeq[i])}

\* C9: once the overlapping runs have ended, the table holds one row for
\* every coin_id a committed run wrote, and the current_price, market_cap
\* and load_timestamp of that row are all those of the last run that
\* committed a write of the coin_id.
C9_LastWriterWins ==
    RunsEnded =>
        \A c \in AllIds :
            CommitsOf(c) # {} =>
                LET last == commitSeq[CHOOSE i \in CommitsOf(c) :
                                          \A k \in CommitsOf(c) : k <= i]
                IN  /\ c \in DOMAIN table
                    /\ table[c].coin_id = c
                    /\ table[c].current_price = RunRec(last, c).current_price
                    /\ table[c].market_cap = RunRec(last, c).market_cap
                    /\ table[c].load_timestamp = RunRec(last, c).load_timestamp

\* two runs that wrote both coin_ids in opposite orders have both committed,
\* run 2 first
C9_Witness ==
    /\ \A r \in Runs : runs[r].pc = "committed"
    /\ SubSeq(commitSeq, 1, 2) = <<2, 1>>
    /\ RunIds(1) = AllIds /\ RunIds(2) = AllIds
    /\ runs[1].batch[1].coin_id # runs[2].batch[1].coin_id

-----------------------------------------------------------------------------
(* The text normalisation of transform_crypto_data applied repeatedly *)

TextValues == {None} \cup {Some(t) : t \in SeqsUpTo(Chars, MaxStrLen)}

\* lines 106-107
Normalized(kind, v) == IF kind = "symbol" THEN NormSymbol(v) ELSE NormName(v)

InitNorm ==
    /\ tableExists = FALSE /\ table = EmptyTable
    /\ IdlePipe /\ IdleDb /\ IdleLoad /\ IdleConc
    /\ normKind \in {"symbol", "name"}
    /\ normIn \in TextValues
    /\ normOut = normIn
    /\ normPrev = normIn
    /\ normSteps = 0

Normalize ==
    /\ normSteps < 2
    /\ normPrev' = normOut
    /\ normOut' = Normalized(normKind, normOut)
    /\ normSteps' = normSteps + 1
    /\ UNCHANGED <<normKind, normIn>>
    /\ UNCHANGED <<pipeVars, dbVars, loadVars, concVars>>

NextNorm == Normalize

SpecNorm == InitNorm /\ [][NextNorm]_vars

\* C10: normalising a symbol or a name a second time changes nothing.
C10_NormIdempotent ==
    normSteps = 2 => normOut = normPrev

=============================================================================
